---- MODULE Spec2Model ----
(***************************************************************************)
(* Model of the Unicorn HAT HD driver (src/lib.rs), built with the         *)
(* "hardware" feature: a 256-cell RGB buffer, a rotation setting and a     *)
(* spidev handle.  The bus is the external collaborator: it is modelled as *)
(* the log of the writes the driver attempted, each with the outcome the   *)
(* transport gave it.                                                      *)
(***************************************************************************)
EXTENDS Integers, Sequences, FiniteSets, TLC

\* ---------------------------------------------------------------- bounds
\* Calls made on one constructed driver in a behaviour.
MaxCalls == 3

\* ------------------------------------------------------------- constants
\* Row length used by the index computation (y * 16) + x.
Width == 16
\* Length of the leds array, [rgb::RGB8; 256].
NumLeds == 256
\* The command byte written before the payload, 0x72.
CmdByte == 114

\* const BLACK: rgb::RGB8 = rgb::RGB8 { r: 0, g: 0, b: 0 };
BLACK == [r |-> 0, g |-> 0, b |-> 0]
RED   == [r |-> 255, g |-> 0, b |-> 0]
GREEN == [r |-> 0, g |-> 255, b |-> 0]
BLUE  == [r |-> 0, g |-> 0, b |-> 255]

\* pub enum Rotate
Rotate == {"RotNone", "RotCW90", "RotCCW90", "Rot180"}

\* ---------------------------------------------------------------- inputs
\* Coordinates (x, y) handed to get_pixel: a corner of the grid, and the
\* first value past the edge in x and in y.
Points == {<<0, 15>>, <<16, 0>>, <<0, 16>>}
\* Arguments (x, y, c) handed to set_pixel: two colours for each of the
\* three corners, and one call for each coordinate past the edge.
SetArgs == {<<0, 0, RED>>, <<0, 0, GREEN>>,
            <<15, 0, GREEN>>, <<15, 0, BLUE>>,
            <<0, 15, BLUE>>, <<0, 15, RED>>,
            <<16, 0, RED>>, <<0, 16, GREEN>>}
\* Paths handed to new.
Paths == {"/dev/spidev0.0"}
\* What the transport answers to Spidev::open followed by configure.
OpenOutcomes == {"ok", "open_err", "configure_err"}
\* What the transport answers to one write.
WriteOutcomes == {"ok", "err"}

VARIABLES
    hat,        \* "none": no driver constructed; "open"; "panicked"
    leds,       \* self.leds, indexed 0 .. 255
    rotation,   \* self.rotation
    spi,        \* self.spi: the path, the options and the writes attempted
    last,       \* the last call made and what it returned
    calls       \* number of calls made on the driver

vars == <<hat, leds, rotation, spi, last, calls>>

\* ------------------------------------------------------- pure operations

\* led.as_slice(): the components of one pixel in memory order r, g, b.
as_slice(led) == <<led.r, led.g, led.b>>

\* [BLACK; 256]
AllBlack == [i \in 0 .. (NumLeds - 1) |-> BLACK]

\* Array indexing self.leds[idx]: a usize index is in bounds iff idx < 256.
InBounds(idx) == idx >= 0 /\ idx < NumLeds

\* set_pixel with the two coordinates exchanged in the index.
set_pixel_transposed(l, x, y, c) ==
    LET idx == (x * Width) + y IN
    IF InBounds(idx)
    THEN [status |-> "ok", leds |-> [l EXCEPT ![idx] = c]]
    ELSE [status |-> "panic", leds |-> l]

\* set_pixel: self.leds[(y * 16) + x] = c, a panic when the index is out of
\* the array's bounds.
set_pixel(l, x, y, c) ==
    LET idx == (y * Width) + x IN
    IF InBounds(idx)
    THEN [status |-> "ok", leds |-> [l EXCEPT ![idx] = c]]
    ELSE [status |-> "panic", leds |-> l]

\* get_pixel: self.leds[(y * 16) + x], a panic when the index is out of the
\* array's bounds.
get_pixel(l, x, y) ==
    LET idx == (y * Width) + x IN
    IF InBounds(idx)
    THEN [status |-> "ok", val |-> l[idx]]
    ELSE [status |-> "panic", val |-> BLACK]

\* clear_pixels that starts one cell late.
clear_pixels_skip_first(l) ==
    [i \in 0 .. (NumLeds - 1) |-> IF i = 0 THEN l[i] ELSE BLACK]

\* clear_pixels: self.leds = [BLACK; 256]
clear_pixels(l) == AllBlack

\* The loops of as_array run over an index range and append the bytes of one
\* pixel per iteration.  Each loop below is written over a range lo .. hi
\* that is split in two, the halves appended in the order the loop visits
\* them, so that the evaluation stays shallow.

\* The RotNone loop appending each pixel's bytes in the order b, g, r.
RECURSIVE rot_none_bgr(_, _, _)
rot_none_bgr(l, lo, hi) ==
    IF lo = hi THEN <<l[lo].b, l[lo].g, l[lo].r>>
    ELSE LET mid == (lo + hi) \div 2 IN
         rot_none_bgr(l, lo, mid) \o rot_none_bgr(l, mid + 1, hi)

\* Rotate::RotNone => for led in self.leds.iter()
RECURSIVE rot_none(_, _, _)
rot_none(l, lo, hi) ==
    IF lo = hi THEN as_slice(l[lo])
    ELSE LET mid == (lo + hi) \div 2 IN
         rot_none(l, lo, mid) \o rot_none(l, mid + 1, hi)

\* The inner loop of RotCW90 without .rev(): for y in 0..16
RECURSIVE rot_cw90_y_asc(_, _, _, _)
rot_cw90_y_asc(l, x, lo, hi) ==
    IF lo = hi THEN as_slice(get_pixel(l, x, lo).val)
    ELSE LET mid == (lo + hi) \div 2 IN
         rot_cw90_y_asc(l, x, lo, mid) \o rot_cw90_y_asc(l, x, mid + 1, hi)

\* Rotate::RotCW90, inner loop: for y in (0..16).rev()
RECURSIVE rot_cw90_y(_, _, _, _)
rot_cw90_y(l, x, lo, hi) ==
    IF lo = hi THEN as_slice(get_pixel(l, x, lo).val)
    ELSE LET mid == (lo + hi) \div 2 IN
         rot_cw90_y(l, x, mid + 1, hi) \o rot_cw90_y(l, x, lo, mid)

\* Rotate::RotCW90, outer loop: for x in 0..16
RECURSIVE rot_cw90(_, _, _)
rot_cw90(l, lo, hi) ==
    IF lo = hi THEN rot_cw90_y(l, lo, 0, Width - 1)
    ELSE LET mid == (lo + hi) \div 2 IN
         rot_cw90(l, lo, mid) \o rot_cw90(l, mid + 1, hi)

\* Rotate::RotCCW90, inner loop: for y in 0..16
RECURSIVE rot_ccw90_y(_, _, _, _)
rot_ccw90_y(l, x, lo, hi) ==
    IF lo = hi THEN as_slice(get_pixel(l, x, lo).val)
    ELSE LET mid == (lo + hi) \div 2 IN
         rot_ccw90_y(l, x, lo, mid) \o rot_ccw90_y(l, x, mid + 1, hi)

\* The outer loop of RotCCW90 without .rev(): for x in 0..16
RECURSIVE rot_ccw90_asc(_, _, _)
rot_ccw90_asc(l, lo, hi) ==
    IF lo = hi THEN rot_ccw90_y(l, lo, 0, Width - 1)
    ELSE LET mid == (lo + hi) \div 2 IN
         rot_ccw90_asc(l, lo, mid) \o rot_ccw90_asc(l, mid + 1, hi)

\* Rotate::RotCCW90, outer loop: for x in (0..16).rev()
RECURSIVE rot_ccw90(_, _, _)
rot_ccw90(l, lo, hi) ==
    IF lo = hi THEN rot_ccw90_y(l, lo, 0, Width - 1)
    ELSE LET mid == (lo + hi) \div 2 IN
         rot_ccw90(l, mid + 1, hi) \o rot_ccw90(l, lo, mid)

\* Rot180 as the byte-wise reverse of the buffer: the pixels in reverse
\* order, each with its bytes reversed too.
RECURSIVE rot_180_bytes(_, _, _)
rot_180_bytes(l, lo, hi) ==
    IF lo = hi THEN <<l[lo].b, l[lo].g, l[lo].r>>
    ELSE LET mid == (lo + hi) \div 2 IN
         rot_180_bytes(l, mid + 1, hi) \o rot_180_bytes(l, lo, mid)

\* Rotate::Rot180 => for led in self.leds.iter().rev()
RECURSIVE rot_180(_, _, _)
rot_180(l, lo, hi) ==
    IF lo = hi THEN as_slice(l[lo])
    ELSE LET mid == (lo + hi) \div 2 IN
         rot_180(l, mid + 1, hi) \o rot_180(l, lo, mid)

\* as_array: the buffer as a Vec<u8> in the order the rotation gives.
as_array(l, rot) ==
    CASE rot = "RotNone"  -> rot_none(l, 0, NumLeds - 1)
      [] rot = "RotCW90"  -> rot_cw90(l, 0, Width - 1)
      [] rot = "RotCCW90" -> rot_ccw90(l, 0, Width - 1)
      [] rot = "Rot180"   -> rot_180(l, 0, NumLeds - 1)

\* self.spi.write(bytes): the transport takes the bytes or fails; either
\* way the attempt is on the bus log.
spi_write(s, bytes, res) ==
    [s EXCEPT !.writes = Append(@, [data |-> bytes, res |-> res])]

\* display that sends the payload before the command byte.
display_payload_first(s, l, rot, w1, w2) ==
    LET data == as_array(l, rot)
        s1   == spi_write(s, data, w1)
    IN  IF w1 # "ok" THEN [status |-> "err", spi |-> s1]
        ELSE LET s2 == spi_write(s1, <<CmdByte>>, w2) IN
             IF w2 # "ok" THEN [status |-> "err", spi |-> s2]
             ELSE [status |-> "ok", spi |-> s2]

\* display that does not return on the failure of the first write.
display_no_early_return(s, l, rot, w1, w2) ==
    LET s1   == spi_write(s, <<CmdByte>>, w1)
        data == as_array(l, rot)
        s2   == spi_write(s1, data, w2)
    IN  IF w1 # "ok" \/ w2 # "ok" THEN [status |-> "err", spi |-> s2]
        ELSE [status |-> "ok", spi |-> s2]

\* display: write [0x72], then the serialized buffer; `?` returns the first
\* failure.  w1, w2: what the transport answers to the first, second write.
display(s, l, rot, w1, w2) ==
    LET s1 == spi_write(s, <<CmdByte>>, w1) IN
    IF w1 # "ok" THEN [status |-> "err", spi |-> s1]
    ELSE LET data == as_array(l, rot)
             s2   == spi_write(s1, data, w2)
         IN  IF w2 # "ok" THEN [status |-> "err", spi |-> s2]
             ELSE [status |-> "ok", spi |-> s2]

\* Values of the fields before a driver exists.
NoLeds == << >>
NoSpi == [path |-> "", bits_per_word |-> 0, max_speed_hz |-> 0, mode |-> 0,
          writes |-> << >>]

\* new: open the device, configure it, and build the driver; `?` returns
\* the failure of either step.
new(spi_path, outcome) ==
    IF outcome = "open_err" \/ outcome = "configure_err"
    THEN [status |-> "err", leds |-> NoLeds, spi |-> NoSpi, rotation |-> "uninit"]
    ELSE [status |-> "ok",
          leds |-> AllBlack,
          spi |-> [path |-> spi_path, bits_per_word |-> 8,
                   max_speed_hz |-> 9000000, mode |-> 0, writes |-> << >>],
          rotation |-> "RotNone"]

\* The record of a call: its arguments (x, y, c, rot), what the transport
\* answered to new (env), how the call ended (status: "ok", "err" for an Err
\* return, "panic") and the pixel it returned (val).  Every field is present
\* for every call.
Call(op, x, y, c, rot, env, status, val) ==
    [op |-> op, x |-> x, y |-> y, c |-> c, rot |-> rot, env |-> env,
     status |-> status, val |-> val]

\* ----------------------------------------------------------------- state

Init ==
    /\ hat = "none"
    /\ leds = NoLeds
    /\ rotation = "uninit"
    /\ spi = NoSpi
    /\ last = Call("init", 0, 0, BLACK, "RotNone", "", "ok", BLACK)
    /\ calls = 0

\* UnicornHatHd::new(spi_path)
New(spi_path) ==
    /\ hat = "none"
    /\ \E outcome \in OpenOutcomes :
         LET r == new(spi_path, outcome) IN
         /\ hat' = IF r.status = "ok" THEN "open" ELSE "none"
         /\ leds' = r.leds
         /\ rotation' = r.rotation
         /\ spi' = r.spi
         /\ last' = Call("new", 0, 0, BLACK, "RotNone", outcome, r.status, BLACK)
    /\ UNCHANGED calls

\* UnicornHatHd::default(): new("/dev/spidev0.0").unwrap()
Default ==
    /\ hat = "none"
    /\ \E outcome \in OpenOutcomes :
         LET r == new("/dev/spidev0.0", outcome) IN
         /\ hat' = IF r.status = "ok" THEN "open" ELSE "panicked"
         /\ leds' = r.leds
         /\ rotation' = r.rotation
         /\ spi' = r.spi
         /\ last' = Call("default", 0, 0, BLACK, "RotNone", outcome,
                         IF r.status = "ok" THEN "ok" ELSE "panic", BLACK)
    /\ UNCHANGED calls

\* set_rotation that turns the stored buffer as well.
SetRotationTurningBuffer(rot) ==
    /\ hat = "open"
    /\ calls < MaxCalls
    /\ rotation' = rot
    /\ leds' = IF rot = "Rot180"
               THEN [i \in 0 .. (NumLeds - 1) |-> leds[(NumLeds - 1) - i]]
               ELSE leds
    /\ last' = Call("set_rotation", 0, 0, BLACK, rot, "", "ok", BLACK)
    /\ calls' = calls + 1
    /\ UNCHANGED <<hat, spi>>

\* set_rotation(rot)
SetRotation(rot) ==
    /\ hat = "open"
    /\ calls < MaxCalls
    /\ rotation' = rot
    /\ last' = Call("set_rotation", 0, 0, BLACK, rot, "", "ok", BLACK)
    /\ calls' = calls + 1
    /\ UNCHANGED <<hat, leds, spi>>

\* display()
Display ==
    /\ hat = "open"
    /\ calls < MaxCalls
    /\ \E w1, w2 \in WriteOutcomes :
         LET r == display(spi, leds, rotation, w1, w2) IN
         /\ spi' = r.spi
         /\ last' = Call("display", 0, 0, BLACK, "RotNone", "", r.status, BLACK)
    /\ calls' = calls + 1
    /\ UNCHANGED <<hat, leds, rotation>>

\* set_pixel(x, y, c)
SetPixel(x, y, c) ==
    /\ hat = "open"
    /\ calls < MaxCalls
    /\ LET r == set_pixel(leds, x, y, c) IN
         /\ leds' = r.leds
         /\ hat' = IF r.status = "panic" THEN "panicked" ELSE hat
         /\ last' = Call("set_pixel", x, y, c, "RotNone", "", r.status, BLACK)
    /\ calls' = calls + 1
    /\ UNCHANGED <<rotation, spi>>

\* get_pixel(x, y)
GetPixel(x, y) ==
    /\ hat = "open"
    /\ calls < MaxCalls
    /\ LET r == get_pixel(leds, x, y) IN
         /\ hat' = IF r.status = "panic" THEN "panicked" ELSE hat
         /\ last' = Call("get_pixel", x, y, BLACK, "RotNone", "", r.status, r.val)
    /\ calls' = calls + 1
    /\ UNCHANGED <<leds, rotation, spi>>

\* clear_pixels()
ClearPixels ==
    /\ hat = "open"
    /\ calls < MaxCalls
    /\ leds' = clear_pixels(leds)
    /\ last' = Call("clear_pixels", 0, 0, BLACK, "RotNone", "", "ok", BLACK)
    /\ calls' = calls + 1
    /\ UNCHANGED <<hat, rotation, spi>>

Next ==
    \/ \E p \in Paths : New(p)
    \/ Default
    \/ \E rot \in Rotate : SetRotation(rot)
    \/ Display
    \/ \E a \in SetArgs : SetPixel(a[1], a[2], a[3])
    \/ \E pt \in Points : GetPixel(pt[1], pt[2])
    \/ ClearPixels

Spec == Init /\ [][Next]_vars

\* ---------------------------------------------------------------- claims

\* The coordinates of the grid.
Cells == 0 .. 15
InRange(x, y) == x \in Cells /\ y \in Cells
\* The k-th three-byte chunk of a serialization, k counted from 0.
Chunk(arr, k) == SubSeq(arr, (3 * k) + 1, (3 * k) + 3)
\* A pixel read that ended normally with value p.
Read(p) == [status |-> "ok", val |-> p]

\* C1: after set_pixel(x, y, p) with (x, y) in range, get_pixel(x, y) returns
\* exactly p, get_pixel of every other in-range coordinate returns what it
\* returned before the call, and the rotation is unchanged.
C1_SetThenGet ==
    [][ (last'.op = "set_pixel" /\ InRange(last'.x, last'.y)) =>
          /\ last'.status = "ok"
          /\ get_pixel(leds', last'.x, last'.y) = Read(last'.c)
          /\ \A x2 \in Cells, y2 \in Cells :
               (<<x2, y2>> # <<last'.x, last'.y>>) =>
                   get_pixel(leds', x2, y2) = get_pixel(leds, x2, y2)
          /\ rotation' = rotation ]_vars

\* A set_pixel at (15, 0) has just stored its value while another cell holds
\* a colour.
C1_Witness ==
    /\ last.op = "set_pixel" /\ last.x = 15 /\ last.y = 0
    /\ last.status = "ok"
    /\ leds[15] = last.c
    /\ \E i \in 0 .. (NumLeds - 1) : i # 15 /\ leds[i] # BLACK

\* C2: a set_pixel or get_pixel call with x >= 16 or y >= 16 ends in an
\* out-of-bounds fault and leaves every stored value as it was.
C2_OutOfRangeFaults ==
    [][ (last'.op \in {"set_pixel", "get_pixel"}
            /\ ~InRange(last'.x, last'.y)) =>
          (last'.status = "panic" /\ leds' = leds) ]_vars

\* C3: a successful display() appends exactly two writes to the bus, the
\* byte 0x72 and then 768 bytes that are the serialization of the buffer
\* under the rotation set at the time of the call; the rotation is RotNone
\* after construction and only set_rotation changes it.
C3_DisplayWire ==
    [][ /\ (last'.op = "display" /\ last'.status = "ok") =>
              LET n == Len(spi.writes) IN
              /\ Len(spi'.writes) = n + 2
              /\ SubSeq(spi'.writes, 1, n) = spi.writes
              /\ spi'.writes[n + 1] = [data |-> <<114>>, res |-> "ok"]
              /\ spi'.writes[n + 2].res = "ok"
              /\ Len(spi'.writes[n + 2].data) = 768
              /\ spi'.writes[n + 2].data = as_array(leds, rotation)
              /\ leds' = leds /\ rotation' = rotation
        /\ (last'.op \in {"new", "default"} /\ last'.status = "ok") =>
              rotation' = "RotNone"
        /\ (rotation' # rotation) =>
              last'.op \in {"new", "default", "set_rotation"} ]_vars

\* A display under a rotation other than RotNone has put a coloured frame on
\* the bus.
C3_Witness ==
    /\ last.op = "display" /\ last.status = "ok"
    /\ rotation = "RotCW90"
    /\ Len(spi.writes) = 2
    /\ spi.writes[2].data # as_array(AllBlack, "RotNone")

\* C4: set_rotation changes no stored pixel, and set_pixel and get_pixel
\* address the cell y*16 + x whatever the rotation is.
C4_RotationReadOrderOnly ==
    [][ /\ (last'.op = "set_rotation") =>
              (leds' = leds /\ rotation' = last'.rot)
        /\ (last'.op = "set_pixel" /\ InRange(last'.x, last'.y)) =>
              leds' = [leds EXCEPT ![(last'.y * 16) + last'.x] = last'.c]
        /\ (last'.op = "get_pixel" /\ InRange(last'.x, last'.y)) =>
              (last'.status = "ok"
                 /\ last'.val = leds[(last'.y * 16) + last'.x]) ]_vars

\* Under a rotation other than RotNone, get_pixel(0, 15) has returned the
\* colour stored at cell 240.
C4_Witness ==
    /\ rotation \in {"RotCW90", "RotCCW90", "Rot180"}
    /\ last.op = "get_pixel" /\ last.x = 0 /\ last.y = 15
    /\ last.val # BLACK /\ last.val = leds[240]

\* C5: new returns Err when opening or configuring the bus fails and no
\* driver exists then; display returns Err when the 0x72 write fails,
\* without attempting the payload write, and Err when the payload write
\* fails; neither panics, a failing display leaves buffer and rotation as
\* they were, and every display call, also one after a failure, starts again
\* with the 0x72 write.
C5_TransportErrors ==
    [][ /\ (last'.op = "new") =>
              /\ last'.status = (IF last'.env = "ok" THEN "ok" ELSE "err")
              /\ (last'.status = "err") => (hat' = "none" /\ leds' = NoLeds)
        /\ (last'.op = "display") =>
              LET n     == Len(spi.writes)
                  added == Len(spi'.writes) - n
              IN
              /\ last'.status \in {"ok", "err"}
              /\ leds' = leds /\ rotation' = rotation /\ hat' = hat
              /\ SubSeq(spi'.writes, 1, n) = spi.writes
              /\ added \in {1, 2}
              /\ spi'.writes[n + 1].data = <<114>>
              /\ (spi'.writes[n + 1].res = "err") =>
                    (added = 1 /\ last'.status = "err")
              /\ (spi'.writes[n + 1].res = "ok") =>
                    /\ added = 2
                    /\ spi'.writes[n + 2].data = as_array(leds, rotation)
                    /\ last'.status = spi'.writes[n + 2].res ]_vars

\* A display has succeeded after one that failed on the 0x72 write and one
\* that failed on the payload write.
C5_Witness ==
    /\ last.op = "display" /\ last.status = "ok"
    /\ Len(spi.writes) = 5
    /\ spi.writes[1].res = "err"
    /\ spi.writes[2].res = "ok" /\ spi.writes[3].res = "err"
    /\ spi.writes[4].res = "ok" /\ spi.writes[5].res = "ok"

\* C6: after a successful new and after every clear_pixels, get_pixel
\* returns (0,0,0) for every in-range coordinate; clear_pixels leaves the
\* rotation unchanged.
C6_BlackWhenNewOrCleared ==
    [][ /\ (last'.op \in {"new", "default"} /\ last'.status = "ok") =>
              \A x \in Cells, y \in Cells :
                  get_pixel(leds', x, y) = Read([r |-> 0, g |-> 0, b |-> 0])
        /\ (last'.op = "clear_pixels") =>
              /\ \A x \in Cells, y \in Cells :
                    get_pixel(leds', x, y) = Read([r |-> 0, g |-> 0, b |-> 0])
              /\ rotation' = rotation ]_vars

\* clear_pixels has run on a buffer that held red at (0, 0), as the frame
\* displayed before it shows.
C6_Witness ==
    /\ last.op = "clear_pixels"
    /\ Len(spi.writes) = 2
    /\ spi.writes[2].data[1] = 255
    /\ leds[0] = BLACK

\* C7: under RotNone the serialized byte at offset 3*(y*16 + x) + c is
\* channel c of the pixel stored at (x, y), for every buffer content; with
\* (0,0) red, (15,0) green and (0,15) blue on a cleared buffer, bytes 0..2
\* are 255,0,0, bytes 45..47 are 0,255,0 and bytes 720..722 are 0,0,255.
C7_RotNoneOffsets ==
    (hat = "open") =>
        LET arr == as_array(leds, "RotNone") IN
        /\ \A x \in Cells, y \in Cells :
             LET p   == get_pixel(leds, x, y).val
                 off == 3 * ((y * 16) + x)
             IN  /\ arr[off + 0 + 1] = p.r
                 /\ arr[off + 1 + 1] = p.g
                 /\ arr[off + 2 + 1] = p.b
        /\ (leds = [[[AllBlack EXCEPT ![0] = RED] EXCEPT ![15] = GREEN]
                        EXCEPT ![240] = BLUE]) =>
             /\ SubSeq(arr, 1, 3) = <<255, 0, 0>>
             /\ SubSeq(arr, 46, 48) = <<0, 255, 0>>
             /\ SubSeq(arr, 721, 723) = <<0, 0, 255>>

\* The buffer of the instance: cleared, then (0,0) red, (15,0) green and
\* (0,15) blue.
C7_Witness ==
    /\ hat = "open"
    /\ last.op = "set_pixel"
    /\ leds = [[[AllBlack EXCEPT ![0] = RED] EXCEPT ![15] = GREEN]
                   EXCEPT ![240] = BLUE]

\* C8: chunk k of the Rot180 serialization is chunk 255 - k of the RotNone
\* serialization of the same buffer, bytes inside the chunk in the same
\* order, for every k in 0 .. 255.
C8_Rot180Reverse ==
    (hat = "open") =>
        LET none == as_array(leds, "RotNone")
            r180 == as_array(leds, "Rot180")
        IN  /\ Len(r180) = 768 /\ Len(none) = 768
            /\ \A k \in 0 .. 255 : Chunk(r180, k) = Chunk(none, 255 - k)

\* Red at (0,0) and green at (15,0) come out as the last chunk and as chunk
\* 240 of the Rot180 serialization.
C8_Witness ==
    /\ hat = "open"
    /\ leds[0] = RED /\ leds[15] = GREEN
    /\ Chunk(as_array(leds, "Rot180"), 255) = <<255, 0, 0>>
    /\ Chunk(as_array(leds, "Rot180"), 240) = <<0, 255, 0>>

\* C9: chunk k of the RotCW90 serialization is chunk 255 - k of the RotCCW90
\* serialization of the same buffer, bytes inside the chunk in the same
\* order, for every k in 0 .. 255.
C9_Rot90Reverses ==
    (hat = "open") =>
        LET cw  == as_array(leds, "RotCW90")
            ccw == as_array(leds, "RotCCW90")
        IN  \A k \in 0 .. 255 : Chunk(cw, k) = Chunk(ccw, 255 - k)

\* Blue at (0,15) and green at (15,0): blue leads the RotCW90 serialization
\* and ends the RotCCW90 one.
C9_Witness ==
    /\ hat = "open"
    /\ leds[240] = BLUE /\ leds[15] = GREEN
    /\ Chunk(as_array(leds, "RotCW90"), 0) = <<0, 0, 255>>
    /\ Chunk(as_array(leds, "RotCCW90"), 255) = <<0, 0, 255>>

\* C10: the pixel stored at (x, y) is chunk 16*x + (15 - y) of the RotCW90
\* serialization and chunk 16*(15 - x) + y of the RotCCW90 serialization, as
\* its red, green, blue bytes in that order; both serializations are 768
\* bytes long, so every cell is emitted exactly once.
C10_Rot90Order ==
    (hat = "open") =>
        LET cw  == as_array(leds, "RotCW90")
            ccw == as_array(leds, "RotCCW90")
        IN  /\ Len(cw) = 768 /\ Len(ccw) = 768
            /\ \A x \in Cells, y \in Cells :
                 LET p == leds[(y * 16) + x] IN
                 /\ Chunk(cw, (16 * x) + (15 - y)) = <<p.r, p.g, p.b>>
                 /\ Chunk(ccw, (16 * (15 - x)) + y) = <<p.r, p.g, p.b>>

\* Green at (15,0) is chunk 255 under RotCW90 and chunk 0 under RotCCW90,
\* while (0,0) holds another colour.
C10_Witness ==
    /\ hat = "open"
    /\ leds[15] = GREEN /\ leds[0] = RED
    /\ Chunk(as_array(leds, "RotCW90"), 255) = <<0, 255, 0>>
    /\ Chunk(as_array(leds, "RotCCW90"), 0) = <<0, 255, 0>>
    /\ Chunk(as_array(leds, "RotCW90"), 15) = <<255, 0, 0>>

====
